---- MODULE Spec2Model ----
(***************************************************************************)
(* Agent session and authentication orchestration of src/chat/agentforce.ts*)
(* (credential providers, "use cache" memoization, retryOperation,         *)
(* newSession / getSession / endSession / sendStreamingMessage).           *)
(*                                                                         *)
(* Every exported operation is an async function: it is modelled as a      *)
(* call chain whose steps are the code between two awaits.  A network      *)
(* request is issued at the end of one step and answered in the next, so   *)
(* that call chains of different callers interleave at the awaits.         *)
(***************************************************************************)
EXTENDS Integers, Sequences, FiniteSets, TLC

\* ------------------------------------------------------------------ bounds
MaxCalls == 2
MaxSessions == 2
MaxSeqId == 0

\* ------------------------------------------------------- program constants
MaxRetries == 2
BaseDelayMs == 1500
AuthTimeoutMs == 10000
SessionTimeoutMs == 15000
EndTimeoutMs == 10000
StreamTimeoutMs == 30000

ApiHost == "https://api.salesforce.com"

\* -------------------------------------------------------------- input sets
Callers == {"c1", "c2"}
AuthMode == {"direct", "applink"}
NoAgent == ""
AgentArgs == {NoAgent, "agent-A"}
DefaultAgents == {NoAgent, "agent-D"}
\* The complete bodies the OAuth server answers a token request with.
OAuthGrants ==
  {[access_token |-> "direct-token-1", api_instance_url |-> "https://custom-api.salesforce.com"],
   [access_token |-> "direct-token-2", api_instance_url |-> ApiHost]}
DomainUrls == {"https://test-org.my.salesforce.com", "https://any-org.my.salesforce.com"}
AppLinkTokens == {"applink-token"}
Streams == {"stream-1", "stream-2"}
Chars == {" ", "a"}
SeqIds == -1 .. MaxSeqId
ErrStatuses == {400, 401, 403, 404, 429, 503}

\* Message texts: empty, whitespace only, plain, and padded on both sides.
Texts == {<<>>, <<" ">>, <<" ", " ">>, <<"a">>, <<" ", "a", " ">>}

\* ------------------------------------------------------------- text.trim()
IsSpace(ch) == ch = " "

RECURSIVE TrimStart(_)
TrimStart(t) ==
  IF t = <<>> THEN <<>>
  ELSE IF IsSpace(Head(t)) THEN TrimStart(Tail(t)) ELSE t

RECURSIVE TrimEnd(_)
TrimEnd(t) ==
  IF t = <<>> THEN <<>>
  ELSE IF IsSpace(t[Len(t)]) THEN TrimEnd(SubSeq(t, 1, Len(t) - 1)) ELSE t

Trim(t) == TrimEnd(TrimStart(t))

\* ------------------------------------------------------------------ errors
\* An error value: axios marks an AxiosError, code is error.code, status is
\* error.response.status (0 when there is no response), msg is the message
\* split at its first ": " into <<prefix, detail>>.
NoError == [axios |-> FALSE, code |-> "", status |-> 0, statusText |-> "", msg |-> <<"", "">>]

PlainError(prefix, detail) ==
  [axios |-> FALSE, code |-> "", status |-> 0, statusText |-> "", msg |-> <<prefix, detail>>]

StatusText(s) ==
  CASE s = 400 -> "Bad Request"
    [] s = 401 -> "Unauthorized"
    [] s = 403 -> "Forbidden"
    [] s = 404 -> "Not Found"
    [] s = 429 -> "Too Many Requests"
    [] s = 503 -> "Service Unavailable"
    [] OTHER -> ""

\* What the transport answers to a request that does not succeed: no answer
\* in time, no connection, or a status outside 2xx.  Each kind of request is
\* answered with the statuses its error handling tells apart, and 400 for
\* "any other".
Failures(statuses) ==
  {[kind |-> "timeout", status |-> 0], [kind |-> "network", status |-> 0]}
    \cup {[kind |-> "http", status |-> s] : s \in statuses}

OAuthFailures == Failures({400, 401, 503})
SessionFailures == Failures({400, 401, 403, 404, 503})
MessageFailures == Failures(ErrStatuses)
DeleteFailures == Failures({404, 503})

\* The AxiosError that axios rejects with for such an answer.
AxiosErrorOf(resp) ==
  CASE resp.kind = "timeout" ->
         [axios |-> TRUE, code |-> "ECONNABORTED", status |-> 0, statusText |-> "",
          msg |-> <<"AxiosError", "timeout exceeded">>]
    [] resp.kind = "network" ->
         [axios |-> TRUE, code |-> "ERR_NETWORK", status |-> 0, statusText |-> "",
          msg |-> <<"AxiosError", "Network Error">>]
    [] OTHER ->
         [axios |-> TRUE,
          code |-> IF resp.status >= 500 THEN "ERR_BAD_RESPONSE" ELSE "ERR_BAD_REQUEST",
          status |-> resp.status, statusText |-> StatusText(resp.status),
          msg |-> <<"AxiosError", "Request failed">>]

\* getToken, catch block
ClassifyTokenError_Rethrow(error) ==
  IF error.axios THEN
    IF error.code = "ECONNABORTED"
      THEN PlainError("Authentication timeout", "Unable to connect to Salesforce")
    ELSE IF error.status = 401
      THEN PlainError("Authentication failed", "Invalid client credentials")
    ELSE IF error.status >= 500
      THEN PlainError("Authentication failed", "Salesforce service temporarily unavailable")
    ELSE PlainError("Authentication failed",
                    IF error.status # 0 THEN ToString(error.status) ELSE "Network error")
  ELSE error

ClassifyTokenError(error) ==
  IF error.axios THEN
    IF error.code = "ECONNABORTED"
      THEN PlainError("Authentication timeout", "Unable to connect to Salesforce")
    ELSE IF error.status = 401
      THEN PlainError("Authentication failed", "Invalid client credentials")
    ELSE IF error.status >= 500
      THEN PlainError("Authentication failed", "Salesforce service temporarily unavailable")
    ELSE PlainError("Authentication failed",
                    IF error.status # 0 THEN ToString(error.status) ELSE "Network error")
  ELSE PlainError("Authentication failed", "Unable to connect to Salesforce")

\* getTokenFromAppLink, catch block (every modelled error is an Error instance)
ClassifyAppLinkError_Unwrapped(error) == error

ClassifyAppLinkError(error) ==
  PlainError("AppLink authentication failed",
             IF error.msg[2] = "" THEN error.msg[1] ELSE error.msg[1] \o ": " \o error.msg[2])

\* newSession, catch block of the operation body
ClassifySessionError_Rethrow(error) == error

ClassifySessionError(error) ==
  IF error.axios THEN
    IF error.code = "ECONNABORTED"
      THEN PlainError("Session creation timeout", "Agentforce service is taking too long to respond")
    ELSE IF error.status = 401
      THEN PlainError("Session creation failed", "Authentication expired")
    ELSE IF error.status = 403
      THEN PlainError("Session creation failed", "Access denied to Agentforce agent")
    ELSE IF error.status = 404
      THEN PlainError("Session creation failed", "Agentforce agent not found")
    ELSE IF error.status >= 500
      THEN PlainError("Session creation failed", "Agentforce service temporarily unavailable")
    ELSE PlainError("Session creation failed",
                    IF error.statusText # "" THEN error.statusText ELSE "Network error")
  ELSE error

\* sendStreamingMessage, catch block
ClassifyMessageError_WrapsAll(error) ==
  IF error.axios THEN
    IF error.code = "ECONNABORTED"
      THEN PlainError("Request timeout", "Agentforce is taking too long to respond")
    ELSE IF error.status = 401
      THEN PlainError("Authentication expired", "Please refresh and try again")
    ELSE IF error.status = 403
      THEN PlainError("Access denied", "You don't have permission to use this agent")
    ELSE IF error.status = 404
      THEN PlainError("Session not found", "Please refresh and try again")
    ELSE IF error.status = 429
      THEN PlainError("Rate limit exceeded", "Please wait a moment and try again")
    ELSE IF error.status >= 500
      THEN PlainError("Agentforce service is temporarily unavailable. Please try again in a few moments", "")
    ELSE PlainError("Failed to send message",
                    IF error.statusText # "" THEN error.statusText ELSE "Network error")
  ELSE PlainError("Failed to send message", "Network error")

ClassifyMessageError_No429(error) ==
  IF error.axios THEN
    IF error.code = "ECONNABORTED"
      THEN PlainError("Request timeout", "Agentforce is taking too long to respond")
    ELSE IF error.status = 401
      THEN PlainError("Authentication expired", "Please refresh and try again")
    ELSE IF error.status = 403
      THEN PlainError("Access denied", "You don't have permission to use this agent")
    ELSE IF error.status = 404
      THEN PlainError("Session not found", "Please refresh and try again")
    ELSE IF error.status >= 500
      THEN PlainError("Agentforce service is temporarily unavailable. Please try again in a few moments", "")
    ELSE PlainError("Failed to send message",
                    IF error.statusText # "" THEN error.statusText ELSE "Network error")
  ELSE error

ClassifyMessageError(error) ==
  IF error.axios THEN
    IF error.code = "ECONNABORTED"
      THEN PlainError("Request timeout", "Agentforce is taking too long to respond")
    ELSE IF error.status = 401
      THEN PlainError("Authentication expired", "Please refresh and try again")
    ELSE IF error.status = 403
      THEN PlainError("Access denied", "You don't have permission to use this agent")
    ELSE IF error.status = 404
      THEN PlainError("Session not found", "Please refresh and try again")
    ELSE IF error.status = 429
      THEN PlainError("Rate limit exceeded", "Please wait a moment and try again")
    ELSE IF error.status >= 500
      THEN PlainError("Agentforce service is temporarily unavailable. Please try again in a few moments", "")
    ELSE PlainError("Failed to send message",
                    IF error.statusText # "" THEN error.statusText ELSE "Network error")
  ELSE error

\* ---------------------------------------------------------- retryOperation
\* The guard of retryOperation's catch: re-raise without retrying.
ShouldRethrow(error) == error.axios /\ error.status # 0 /\ error.status < 500

\* The delay before the attempt that follows attempt number `attempt` (from 0).
BackoffDelay_Constant(attempt) == BaseDelayMs

BackoffDelay(attempt) == BaseDelayMs * (attempt + 1)

\* ------------------------------------------------------------------- state
VARIABLES
  call,          \* call[c]: the call chain caller c is running (a record, see IdleCall)
  tokenCache,    \* the "use cache" entry of getToken (it takes no argument)
  sessionCache,  \* the "use cache" entries of getSession, one per argument list
  defaultAgent,  \* agentConfig.agentId
  nextSid,       \* number of the next session the agent platform creates
  ncalls,        \* number of calls started
  ended          \* the sessions the agent platform has ended on a DELETE

vars == <<call, tokenCache, sessionCache, defaultAgent, nextSid, ncalls, ended>>

NoCreds == [accessToken |-> "", apiInstanceUrl |-> ""]
NoReq == [kind |-> "none", base |-> "", bearer |-> "", timeout |-> 0, agent |-> "",
          sid |-> 0, seq |-> -1, type |-> "", text |-> <<>>, endReason |-> "",
          key |-> <<>>]
NoAnswer == [status |-> 0, sessionId |-> 0, data |-> "", defect |-> ""]
NoResult == [kind |-> "none", sessionId |-> 0, data |-> "", err |-> NoError]
NoEnded == [fresh |-> FALSE, ids |-> {}]

SessionKeys == AgentArgs \X AuthMode
EmptySessionCache == [k \in SessionKeys |-> 0]
CachedIds(cache) == {cache[k] : k \in SessionKeys} \ {0}

\* History kept by a call: whether the caller's previous call was a completed
\* endSession, and the session ids that were cached when this call started.
AfterEnd(prev) ==
  IF prev.op = "endSession" /\ prev.pc = "done"
    THEN [fresh |-> TRUE, ids |-> CachedIds(sessionCache)]
    ELSE NoEnded

IdleCall ==
  [id |-> "",             \* the caller whose call chain this is
   op |-> "none", agent |-> NoAgent, mode |-> "direct", text |-> <<>>, seq |-> 0,
   pc |-> "idle",
   nested |-> FALSE,       \* inside the operation body of newSession
   attempt |-> 0,          \* retryOperation: attempt
   lastError |-> NoError,  \* retryOperation: lastError
   creds |-> NoCreds,      \* credentials resolved by endSession / sendStreamingMessage
   sid |-> 0,              \* sessionId resolved through getSession
   result |-> NoResult,    \* what the call returned or raised
   req |-> NoReq,          \* the last request the call issued (HTTP, or to the broker)
   answer |-> NoAnswer,    \* the answer to req, once it is there (status 0: none, or no response)
   nCreate |-> 0, nMsg |-> 0, nDelete |-> 0,   \* requests issued, by kind
   nCreds |-> 0,           \* invocations of getCredentials
   delays |-> <<>>,        \* the backoff delays the call has waited, in order
   only503 |-> TRUE,       \* every failed attempt so far failed by a 503 session-create answer
   bodyErr |-> NoError,    \* the error the latest newSession attempt raised
   keys |-> {},            \* the external session keys of the session-create POSTs issued
   sinceEnd |-> NoEnded]   \* AfterEnd of the caller's previous call

OffCall == [IdleCall EXCEPT !.pc = "off"]

StartCall(prev, op, agent, mode, text, seq, pc, nested) ==
  [IdleCall EXCEPT !.id = prev.id, !.op = op, !.agent = agent, !.mode = mode, !.text = text, !.seq = seq,
                   !.pc = pc, !.nested = nested, !.sinceEnd = AfterEnd(prev)]

CanStart(c) == call[c].pc \in {"idle", "done"} /\ ncalls < MaxCalls

Init ==
  /\ call = [c \in Callers |-> [(IF c = "c1" THEN IdleCall ELSE OffCall) EXCEPT !.id = c]]
  /\ tokenCache = NoCreds
  /\ sessionCache = EmptySessionCache
  /\ defaultAgent \in DefaultAgents
  /\ nextSid = 1
  /\ ncalls = 0
  /\ ended = {}

\* ------------------------------------------------- results and HTTP requests
Returned(sessionId, data) == [kind |-> "ok", sessionId |-> sessionId, data |-> data, err |-> NoError]
ReturnedNull == [kind |-> "ok", sessionId |-> 0, data |-> "null", err |-> NoError]
Raised(error) == [kind |-> "err", sessionId |-> 0, data |-> "", err |-> error]

\* The answer to the pending request arrives.
Answered(r, status, sessionId, data, defect) ==
  [r EXCEPT !.answer = [status |-> status, sessionId |-> sessionId, data |-> data, defect |-> defect]]

Failed(r, resp) == Answered(r, resp.status, 0, resp.kind, "")

Finish(r, result) == [r EXCEPT !.pc = "done", !.nested = FALSE, !.result = result]

OAuthRequest ==
  [NoReq EXCEPT !.kind = "oauth", !.base = "https://my-domain", !.timeout = AuthTimeoutMs]

BrokerRequest == [NoReq EXCEPT !.kind = "broker"]

SessionCreateRequest(creds, targetAgentId, uuid) ==
  [NoReq EXCEPT !.kind = "create", !.base = creds.apiInstanceUrl, !.bearer = creds.accessToken,
                !.agent = targetAgentId, !.key = uuid, !.timeout = SessionTimeoutMs]

SessionDeleteRequest_LifecycleTimeout(creds, sessionId) ==
  [NoReq EXCEPT !.kind = "delete", !.base = creds.apiInstanceUrl, !.bearer = creds.accessToken,
                !.sid = sessionId, !.endReason = "UserRequest", !.timeout = SessionTimeoutMs]

SessionDeleteRequest(creds, sessionId) ==
  [NoReq EXCEPT !.kind = "delete", !.base = creds.apiInstanceUrl, !.bearer = creds.accessToken,
                !.sid = sessionId, !.endReason = "UserRequest", !.timeout = EndTimeoutMs]

MessageRequest_Untrimmed(creds, sessionId, sequenceId, text) ==
  [NoReq EXCEPT !.kind = "message", !.base = creds.apiInstanceUrl, !.bearer = creds.accessToken,
                !.sid = sessionId, !.seq = sequenceId, !.type = "Text", !.text = text,
                !.timeout = StreamTimeoutMs]

MessageRequest(creds, sessionId, sequenceId, text) ==
  [NoReq EXCEPT !.kind = "message", !.base = creds.apiInstanceUrl, !.bearer = creds.accessToken,
                !.sid = sessionId, !.seq = sequenceId, !.type = "Text", !.text = Trim(text),
                !.timeout = StreamTimeoutMs]

\* ------------------------------------------------------ control flow of a call
\* An error reaches the catch block of the exported operation the call runs.
\* getSession and newSession have no catch block of their own at this level.
OpFailed_EndSessionRaises(r, error) ==
  CASE r.op = "endSession" ->
         IF error.axios /\ error.status # 404
           THEN Finish(r, Raised(error)) ELSE Finish(r, ReturnedNull)
    [] r.op = "sendStreamingMessage" -> Finish(r, Raised(ClassifyMessageError(error)))
    [] OTHER -> Finish(r, Raised(error))

OpFailed(r, error) ==
  CASE r.op = "endSession" -> Finish(r, ReturnedNull)
    [] r.op = "sendStreamingMessage" -> Finish(r, Raised(ClassifyMessageError(error)))
    [] OTHER -> Finish(r, Raised(error))

\* getSession has yielded sessionId: the caller of getSession goes on.
SessionResolved(r, sessionId) ==
  LET r1 == [r EXCEPT !.sid = sessionId, !.nested = FALSE] IN
  CASE r.op = "endSession" ->
         [r1 EXCEPT !.pc = "req_wait", !.nDelete = @ + 1, !.answer = NoAnswer,
                    !.req = SessionDeleteRequest(r.creds, sessionId)]
    [] r.op = "sendStreamingMessage" ->
         [r1 EXCEPT !.pc = "req_wait", !.nMsg = @ + 1, !.answer = NoAnswer,
                    !.req = MessageRequest(r.creds, sessionId, r.seq, r.text)]
    [] OTHER -> Finish(r1, Returned(sessionId, ""))

\* retryOperation, catch block: the operation body raised `error`.
RetryCatch_GivesUpEarly(r, error) ==
  LET r1 == [r EXCEPT !.lastError = error, !.bodyErr = error] IN
  IF ShouldRethrow(error) THEN OpFailed(r1, error)
  ELSE IF r.attempt = MaxRetries - 1 THEN OpFailed(r1, r1.lastError)
  ELSE [r1 EXCEPT !.pc = "backoff", !.delays = Append(@, BackoffDelay(r.attempt))]

RetryCatch_ExtraAttempt(r, error) ==
  LET r1 == [r EXCEPT !.lastError = error, !.bodyErr = error] IN
  IF ShouldRethrow(error) THEN OpFailed(r1, error)
  ELSE IF r.attempt = MaxRetries + 1 THEN OpFailed(r1, r1.lastError)
  ELSE [r1 EXCEPT !.pc = "backoff", !.delays = Append(@, BackoffDelay(r.attempt))]

RetryCatch(r, error) ==
  LET r1 == [r EXCEPT !.lastError = error, !.bodyErr = error] IN
  IF ShouldRethrow(error) THEN OpFailed(r1, error)
  ELSE IF r.attempt = MaxRetries THEN OpFailed(r1, r1.lastError)
  ELSE [r1 EXCEPT !.pc = "backoff", !.delays = Append(@, BackoffDelay(r.attempt))]

\* The operation body of newSession raised `error`: its catch block classifies it.
AttemptFailed(r, error) == RetryCatch(r, ClassifySessionError(error))

\* The same, for a failure that is not a 503 answer to the session-create POST.
AttemptFailedOther(r, error) == AttemptFailed([r EXCEPT !.only503 = FALSE], error)

\* newSession, operation body after the credentials are there.
TargetAgentId_DefaultFirst(agentId) == IF defaultAgent # NoAgent THEN defaultAgent ELSE agentId

TargetAgentId(agentId) == IF agentId # NoAgent THEN agentId ELSE defaultAgent

\* crypto.randomUUID(): a value no other execution of the body gets.  It is
\* named after the execution that draws it: the caller, the number of calls
\* started so far, and the number of the body execution within the call.
RandomUUID(r) == <<r.id, ncalls, r.nCreds>>

SessionBody(r, creds) ==
  IF TargetAgentId(r.agent) = NoAgent
    THEN AttemptFailedOther(r, PlainError("No agent ID provided and no default agent configured", ""))
    ELSE [r EXCEPT !.pc = "post_wait", !.nCreate = @ + 1, !.answer = NoAnswer,
                   !.keys = @ \cup {RandomUUID(r)},
                   !.req = SessionCreateRequest(creds, TargetAgentId(r.agent), RandomUUID(r))]

\* getCredentials returned `creds` / raised `error`.
CredsResolved_NotAwaited(r, creds) ==
  IF r.nested THEN SessionBody(r, NoCreds)
  ELSE [r EXCEPT !.pc = "session"]

CredsResolved_SkipsSession(r, creds) ==
  IF r.nested THEN SessionBody(r, creds)
  ELSE IF r.op = "endSession" THEN SessionResolved([r EXCEPT !.creds = creds], 0)
  ELSE [r EXCEPT !.creds = creds, !.pc = "session"]

CredsResolved(r, creds) ==
  IF r.nested THEN SessionBody(r, creds)
  ELSE [r EXCEPT !.creds = creds, !.pc = "session"]

CredsFailed_GoesOn(r, error) ==
  IF r.nested THEN SessionBody(r, NoCreds) ELSE [r EXCEPT !.pc = "session"]

CredsFailed(r, error) ==
  IF r.nested THEN AttemptFailedOther(r, error) ELSE OpFailed(r, error)

Step(c, r2) == call' = [call EXCEPT ![c] = r2]

\* ------------------------------------------------------------ input validation
ValidText_NoTrim(text) == text # <<>>

ValidText(text) == text # <<>> /\ Len(Trim(text)) # 0
ValidSequenceId(sequenceId) == ~(sequenceId < 0)

\* ---------------------------------------------------------------- the calls
CallNewSession(c, agentId, authMode) ==
  /\ CanStart(c)
  /\ ncalls' = ncalls + 1
  /\ Step(c, StartCall(call[c], "newSession", agentId, authMode, <<>>, 0, "creds", TRUE))
  /\ UNCHANGED <<tokenCache, sessionCache, defaultAgent, nextSid, ended>>

CallGetSession(c, agentId, authMode) ==
  /\ CanStart(c)
  /\ ncalls' = ncalls + 1
  /\ Step(c, StartCall(call[c], "getSession", agentId, authMode, <<>>, 0, "session", FALSE))
  /\ UNCHANGED <<tokenCache, sessionCache, defaultAgent, nextSid, ended>>

CallEndSession(c, authMode) ==
  /\ CanStart(c)
  /\ ncalls' = ncalls + 1
  /\ Step(c, StartCall(call[c], "endSession", NoAgent, authMode, <<>>, 0, "creds", FALSE))
  /\ UNCHANGED <<tokenCache, sessionCache, defaultAgent, nextSid, ended>>

CallSendStreamingMessage(c, text, sequenceId, agentId, authMode) ==
  /\ CanStart(c)
  /\ ncalls' = ncalls + 1
  /\ LET r == StartCall(call[c], "sendStreamingMessage", agentId, authMode, text, sequenceId, "creds", FALSE) IN
     Step(c, IF ~ValidText(text)
               THEN OpFailed(r, PlainError("Message text cannot be empty", ""))
             ELSE IF ~ValidSequenceId(sequenceId)
               THEN OpFailed(r, PlainError("Invalid sequence ID", ""))
             ELSE r)
  /\ UNCHANGED <<tokenCache, sessionCache, defaultAgent, nextSid, ended>>

\* ------------------------------------------------------------ getCredentials
\* getCredentials(mode): applink asks the broker on every call; direct goes
\* through the memoized getToken, which asks the OAuth server on a miss.
GetCredentials_IgnoresMode(c) ==
  /\ call[c].pc = "creds"
  /\ LET r == [call[c] EXCEPT !.nCreds = @ + 1] IN
     Step(c, IF tokenCache # NoCreds
               THEN CredsResolved(r, tokenCache)
             ELSE [r EXCEPT !.pc = "oauth_wait", !.req = OAuthRequest, !.answer = NoAnswer])
  /\ UNCHANGED <<tokenCache, sessionCache, defaultAgent, nextSid, ncalls, ended>>

GetCredentials(c) ==
  /\ call[c].pc = "creds"
  /\ LET r == [call[c] EXCEPT !.nCreds = @ + 1] IN
     Step(c, IF r.mode = "applink"
               THEN [r EXCEPT !.pc = "broker_wait", !.req = BrokerRequest, !.answer = NoAnswer]
             ELSE IF tokenCache # NoCreds
               THEN CredsResolved(r, tokenCache)
             ELSE [r EXCEPT !.pc = "oauth_wait", !.req = OAuthRequest, !.answer = NoAnswer])
  /\ UNCHANGED <<tokenCache, sessionCache, defaultAgent, nextSid, ncalls, ended>>

\* The bodies the OAuth server may answer with a 2xx status: a grant, or a
\* grant that lacks one of its two fields.
OAuthBodies ==
  OAuthGrants
    \cup {[g EXCEPT !.access_token = ""] : g \in OAuthGrants}
    \cup {[g EXCEPT !.api_instance_url = ""] : g \in OAuthGrants}

CompleteOAuthBody(data) == data.access_token # "" /\ data.api_instance_url # ""

TokenCredentials_FixedHost(data) ==
  [accessToken |-> data.access_token, apiInstanceUrl |-> ApiHost]

TokenCredentials(data) ==
  [accessToken |-> data.access_token, apiInstanceUrl |-> data.api_instance_url]

\* getToken, after the await of the token request
OAuthSuccess(c, data) ==
  /\ call[c].pc = "oauth_wait"
  /\ IF CompleteOAuthBody(data)
       THEN /\ tokenCache' = TokenCredentials(data)
            /\ Step(c, CredsResolved(Answered(call[c], 200, 0, data.access_token, ""),
                                      TokenCredentials(data)))
       ELSE /\ UNCHANGED tokenCache
            /\ Step(c, CredsFailed(
                 Answered(call[c], 200, 0, data.access_token,
                          IF data.access_token = "" THEN "no access_token" ELSE "no api_instance_url"),
                 ClassifyTokenError(PlainError("Invalid authentication response",
                                               "missing access token or API instance URL"))))
  /\ UNCHANGED <<sessionCache, defaultAgent, nextSid, ncalls, ended>>

OAuthFailure(c, resp) ==
  /\ call[c].pc = "oauth_wait"
  /\ Step(c, CredsFailed(Failed(call[c], resp), ClassifyTokenError(AxiosErrorOf(resp))))
  /\ UNCHANGED <<tokenCache, sessionCache, defaultAgent, nextSid, ncalls, ended>>

\* getTokenFromAppLink, after the await of getAuthorization
BrokerCredentials(auth) == [accessToken |-> auth.accessToken, apiInstanceUrl |-> ApiHost]

BrokerSuccess(c, auth) ==
  /\ call[c].pc = "broker_wait"
  /\ IF auth.accessToken # ""
       THEN /\ Step(c, CredsResolved(Answered(call[c], 200, 0, auth.accessToken, ""),
                                      BrokerCredentials(auth)))
       ELSE /\ Step(c, CredsFailed(Answered(call[c], 200, 0, "", "no accessToken"),
                 ClassifyAppLinkError(
                   PlainError("Invalid AppLink authorization response", "missing access token"))))
  /\ UNCHANGED <<tokenCache, sessionCache, defaultAgent, nextSid, ncalls, ended>>

BrokerFailure(c) ==
  /\ call[c].pc = "broker_wait"
  /\ Step(c, CredsFailed(Answered(call[c], 0, 0, "rejected", ""),
                         ClassifyAppLinkError(PlainError("AppLink service unavailable", ""))))
  /\ UNCHANGED <<tokenCache, sessionCache, defaultAgent, nextSid, ncalls, ended>>

\* ---------------------------------------------------- getSession / newSession
\* The key of a "use cache" entry of getSession: its argument list.
SessionKey_SingleSlot(r) == <<NoAgent, "direct">>

SessionKey(r) == <<r.agent, r.mode>>

\* "use cache": the value a call of the function settles with becomes the
\* entry of its argument list, whatever was there.
Memoize_KeepsFirst(cache, key, value) ==
  IF cache[key] # 0 THEN cache ELSE [cache EXCEPT ![key] = value]

Memoize(cache, key, value) == [cache EXCEPT ![key] = value]

\* getSession, "use cache": a hit yields the memoized session, a miss runs the
\* body, which calls newSession (retryOperation starts with attempt 0).
GetSession_NoCache(c) ==
  /\ call[c].pc = "session"
  /\ Step(c, [call[c] EXCEPT !.pc = "creds", !.nested = TRUE, !.attempt = 0])
  /\ UNCHANGED <<tokenCache, sessionCache, defaultAgent, nextSid, ncalls, ended>>

GetSession(c) ==
  /\ call[c].pc = "session"
  /\ Step(c, IF sessionCache[SessionKey(call[c])] # 0
               THEN SessionResolved(call[c], sessionCache[SessionKey(call[c])])
               ELSE [call[c] EXCEPT !.pc = "creds", !.nested = TRUE, !.attempt = 0])
  /\ UNCHANGED <<tokenCache, sessionCache, defaultAgent, nextSid, ncalls, ended>>

\* newSession returns: the frame of retryOperation, with its locals, is gone.
RetryReturned(r) ==
  [r EXCEPT !.attempt = 0, !.lastError = NoError, !.bodyErr = NoError, !.nested = FALSE]

\* The body the agent platform answers a session-create POST with (2xx): the
\* id of the session it created, or a body without a sessionId.
SessionBody2xx(withId) == [sessionId |-> IF withId THEN nextSid ELSE 0]

\* newSession: the check of the answered body
ValidSessionBody_Any(data) == TRUE

ValidSessionBody(data) == data.sessionId # 0

\* newSession, after the await of the session-create POST
SessionPostSuccess_AlwaysMemoizes(c, withId) ==
  /\ call[c].pc = "post_wait"
  /\ nextSid <= MaxSessions
  /\ LET data == SessionBody2xx(withId)
         r == Answered(call[c], 200, data.sessionId, "",
                        IF data.sessionId = 0 THEN "no sessionId" ELSE "") IN
     IF ValidSessionBody(data)
       THEN /\ nextSid' = nextSid + 1
            /\ sessionCache' = Memoize(sessionCache, SessionKey(r), data.sessionId)
            /\ IF r.op = "newSession"
                 THEN Step(c, Finish(RetryReturned(r), Returned(data.sessionId, "")))
                 ELSE Step(c, SessionResolved(RetryReturned(r), data.sessionId))
       ELSE /\ UNCHANGED <<nextSid, sessionCache>>
            /\ Step(c, AttemptFailedOther(r, PlainError("Invalid session response", "missing session ID")))
  /\ UNCHANGED <<tokenCache, defaultAgent, ncalls, ended>>

SessionPostSuccess(c, withId) ==
  /\ call[c].pc = "post_wait"
  /\ nextSid <= MaxSessions
  /\ LET data == SessionBody2xx(withId)
         r == Answered(call[c], 200, data.sessionId, "",
                        IF data.sessionId = 0 THEN "no sessionId" ELSE "") IN
     IF ValidSessionBody(data)
       THEN /\ nextSid' = nextSid + 1
            /\ IF r.op = "newSession"
                 THEN /\ Step(c, Finish(RetryReturned(r), Returned(data.sessionId, "")))
                      /\ UNCHANGED sessionCache
                 ELSE /\ sessionCache' = Memoize(sessionCache, SessionKey(r), data.sessionId)
                      /\ Step(c, SessionResolved(RetryReturned(r), data.sessionId))
       ELSE /\ UNCHANGED <<nextSid, sessionCache>>
            /\ Step(c, AttemptFailedOther(r, PlainError("Invalid session response", "missing session ID")))
  /\ UNCHANGED <<tokenCache, defaultAgent, ncalls, ended>>

SessionPostFailure_Refreshes401(c, resp) ==
  /\ call[c].pc = "post_wait"
  /\ Step(c, AttemptFailed([Failed(call[c], resp) EXCEPT !.only503 = @ /\ resp.status = 503],
                           AxiosErrorOf(resp)))
  /\ tokenCache' = IF resp.status = 401 THEN NoCreds ELSE tokenCache
  /\ UNCHANGED <<sessionCache, defaultAgent, nextSid, ncalls, ended>>

SessionPostFailure_MemoizesError(c, resp) ==
  /\ call[c].pc = "post_wait"
  /\ Step(c, AttemptFailed([Failed(call[c], resp) EXCEPT !.only503 = @ /\ resp.status = 503],
                           AxiosErrorOf(resp)))
  /\ sessionCache' = IF call[c].op # "newSession" /\ call'[c].pc = "done"
                       THEN Memoize(sessionCache, SessionKey(call[c]), -1)
                       ELSE sessionCache
  /\ UNCHANGED <<tokenCache, defaultAgent, nextSid, ncalls, ended>>

SessionPostFailure(c, resp) ==
  /\ call[c].pc = "post_wait"
  /\ Step(c, AttemptFailed([Failed(call[c], resp) EXCEPT !.only503 = @ /\ resp.status = 503],
                           AxiosErrorOf(resp)))
  /\ UNCHANGED <<tokenCache, sessionCache, defaultAgent, nextSid, ncalls, ended>>

\* retryOperation: the backoff delay has elapsed, the next attempt begins.
Backoff_ReusesCredentials(c) ==
  /\ call[c].pc = "backoff"
  /\ Step(c, IF call[c].req.kind = "create"
               THEN [call[c] EXCEPT !.pc = "post_wait", !.attempt = @ + 1, !.nCreate = @ + 1,
                                    !.answer = NoAnswer]
               ELSE [call[c] EXCEPT !.pc = "creds", !.attempt = @ + 1, !.answer = NoAnswer])
  /\ UNCHANGED <<tokenCache, sessionCache, defaultAgent, nextSid, ncalls, ended>>

Backoff(c) ==
  /\ call[c].pc = "backoff"
  /\ Step(c, [call[c] EXCEPT !.pc = "creds", !.attempt = @ + 1, !.answer = NoAnswer])
  /\ UNCHANGED <<tokenCache, sessionCache, defaultAgent, nextSid, ncalls, ended>>

\* ------------------------------------------------------ sendStreamingMessage
\* sendStreamingMessage returns the data of the answer, a stream.
StreamingResult_Consumed(data) == Returned(0, "")

StreamingResult(data) == Returned(0, data)

MessagePostSuccess(c, stream) ==
  /\ call[c].pc = "req_wait" /\ call[c].op = "sendStreamingMessage"
  /\ Step(c, Finish(Answered(call[c], 200, 0, stream, ""), StreamingResult(stream)))
  /\ UNCHANGED <<tokenCache, sessionCache, defaultAgent, nextSid, ncalls, ended>>

MessagePostFailure(c, resp) ==
  /\ call[c].pc = "req_wait" /\ call[c].op = "sendStreamingMessage"
  /\ Step(c, OpFailed(Failed(call[c], resp), AxiosErrorOf(resp)))
  /\ UNCHANGED <<tokenCache, sessionCache, defaultAgent, nextSid, ncalls, ended>>

\* ---------------------------------------------------------------- endSession
\* revalidateTag("session"): every entry tagged "session" is dropped.
RevalidateSessionTag(cache) == EmptySessionCache

DeleteSuccess_PurgesToken(c) ==
  /\ call[c].pc = "req_wait" /\ call[c].op = "endSession"
  /\ sessionCache' = RevalidateSessionTag(sessionCache)
  /\ tokenCache' = NoCreds
  /\ ended' = ended \cup {call[c].req.sid}
  /\ Step(c, Finish(Answered(call[c], 200, 0, "deleted", ""), Returned(0, "deleted")))
  /\ UNCHANGED <<defaultAgent, nextSid, ncalls>>

DeleteSuccess_EndsAllCached(c) ==
  /\ call[c].pc = "req_wait" /\ call[c].op = "endSession"
  /\ sessionCache' = RevalidateSessionTag(sessionCache)
  /\ ended' = ended \cup CachedIds(sessionCache)
  /\ Step(c, Finish(Answered(call[c], 200, 0, "deleted", ""), Returned(0, "deleted")))
  /\ UNCHANGED <<tokenCache, defaultAgent, nextSid, ncalls>>

DeleteSuccess(c) ==
  /\ call[c].pc = "req_wait" /\ call[c].op = "endSession"
  /\ sessionCache' = RevalidateSessionTag(sessionCache)
  /\ ended' = ended \cup {call[c].req.sid}
  /\ Step(c, Finish(Answered(call[c], 200, 0, "deleted", ""), Returned(0, "deleted")))
  /\ UNCHANGED <<tokenCache, defaultAgent, nextSid, ncalls>>

DeleteFailure(c, resp) ==
  /\ call[c].pc = "req_wait" /\ call[c].op = "endSession"
  /\ Step(c, OpFailed(Failed(call[c], resp), AxiosErrorOf(resp)))
  /\ UNCHANGED <<tokenCache, sessionCache, defaultAgent, nextSid, ncalls, ended>>

\* ------------------------------------------------------------- cache window
\* The validity window of a memoized entry ends.  The window (minutes) is
\* long against a call (seconds): an entry expires between calls.
NoCallInFlight == \A c \in Callers : call[c].pc \in {"idle", "done", "off"}

ExpireToken ==
  /\ NoCallInFlight
  /\ tokenCache # NoCreds
  /\ tokenCache' = NoCreds
  /\ UNCHANGED <<call, sessionCache, defaultAgent, nextSid, ncalls, ended>>

ExpireSession(k) ==
  /\ NoCallInFlight
  /\ sessionCache[k] # 0
  /\ sessionCache' = [sessionCache EXCEPT ![k] = 0]
  /\ UNCHANGED <<call, tokenCache, defaultAgent, nextSid, ncalls, ended>>

\* ------------------------------------------------------------- specification
Next ==
  \/ \E c \in Callers, a \in AgentArgs, m \in AuthMode : CallNewSession(c, a, m)
  \/ \E c \in Callers, a \in AgentArgs, m \in AuthMode : CallGetSession(c, a, m)
  \/ \E c \in Callers, m \in AuthMode : CallEndSession(c, m)
  \/ \E c \in Callers, t \in Texts, n \in SeqIds, a \in AgentArgs, m \in AuthMode :
       CallSendStreamingMessage(c, t, n, a, m)
  \/ \E c \in Callers : GetCredentials(c)
  \/ \E c \in Callers, d \in OAuthBodies : OAuthSuccess(c, d)
  \/ \E c \in Callers, f \in OAuthFailures : OAuthFailure(c, f)
  \/ \E c \in Callers, t \in AppLinkTokens \cup {""}, u \in DomainUrls :
       BrokerSuccess(c, [accessToken |-> t, domainUrl |-> u])
  \/ \E c \in Callers : BrokerFailure(c)
  \/ \E c \in Callers : GetSession(c)
  \/ \E c \in Callers, withId \in BOOLEAN : SessionPostSuccess(c, withId)
  \/ \E c \in Callers, f \in SessionFailures : SessionPostFailure(c, f)
  \/ \E c \in Callers : Backoff(c)
  \/ \E c \in Callers, s \in Streams : MessagePostSuccess(c, s)
  \/ \E c \in Callers, f \in MessageFailures : MessagePostFailure(c, f)
  \/ \E c \in Callers : DeleteSuccess(c)
  \/ \E c \in Callers, f \in DeleteFailures : DeleteFailure(c, f)
  \/ ExpireToken
  \/ \E k \in SessionKeys : ExpireSession(k)

Spec == Init /\ [][Next]_vars

\* ------------------------------------------------------- concurrent callers
\* Two callers, each making one call, getSession or sendStreamingMessage, in
\* either mode; the two call chains interleave at every await.  A request
\* that fails is answered 503 here.
InitRace ==
  /\ call = [c \in Callers |-> [IdleCall EXCEPT !.id = c]]
  /\ tokenCache = NoCreds
  /\ sessionCache = EmptySessionCache
  /\ defaultAgent \in DefaultAgents
  /\ nextSid = 1
  /\ ncalls = 0
  /\ ended = {}

Unavailable == [kind |-> "http", status |-> 503]
FirstCall(c) == call[c].pc = "idle"

NextRace ==
  \/ \E c \in Callers, a \in AgentArgs, m \in AuthMode : FirstCall(c) /\ CallGetSession(c, a, m)
  \/ \E c \in Callers, a \in AgentArgs, m \in AuthMode :
       FirstCall(c) /\ CallSendStreamingMessage(c, <<"a">>, 0, a, m)
  \/ \E c \in Callers : GetCredentials(c)
  \/ \E c \in Callers, d \in OAuthGrants : OAuthSuccess(c, d)
  \/ \E c \in Callers : OAuthFailure(c, Unavailable)
  \/ \E c \in Callers, t \in AppLinkTokens, u \in DomainUrls :
       BrokerSuccess(c, [accessToken |-> t, domainUrl |-> u])
  \/ \E c \in Callers : BrokerFailure(c)
  \/ \E c \in Callers : GetSession(c)
  \/ \E c \in Callers : SessionPostSuccess(c, TRUE)
  \/ \E c \in Callers : SessionPostFailure(c, Unavailable)
  \/ \E c \in Callers : Backoff(c)
  \/ \E c \in Callers, s \in Streams : MessagePostSuccess(c, s)
  \/ \E c \in Callers : MessagePostFailure(c, Unavailable)

SpecRace == InitRace /\ [][NextRace]_vars

\* ------------------------------------------------------------- termination
\* One caller making newSession and getSession calls.  Every await of a call
\* chain ends: each request carries a timeout (10 s, 15 s), the broker call
\* settles, and the timer of a backoff delay fires; so a step of the call in
\* flight is taken whenever one stays possible.
CallStep ==
  \/ \E c \in Callers : GetCredentials(c)
  \/ \E c \in Callers, d \in OAuthBodies : OAuthSuccess(c, d)
  \/ \E c \in Callers, f \in OAuthFailures : OAuthFailure(c, f)
  \/ \E c \in Callers, t \in AppLinkTokens \cup {""}, u \in DomainUrls :
       BrokerSuccess(c, [accessToken |-> t, domainUrl |-> u])
  \/ \E c \in Callers : BrokerFailure(c)
  \/ \E c \in Callers : GetSession(c)
  \/ \E c \in Callers, withId \in BOOLEAN : SessionPostSuccess(c, withId)
  \/ \E c \in Callers, f \in SessionFailures : SessionPostFailure(c, f)
  \/ \E c \in Callers : Backoff(c)

NextTerm ==
  \/ \E c \in Callers, a \in AgentArgs, m \in AuthMode : CallNewSession(c, a, m)
  \/ \E c \in Callers, a \in AgentArgs, m \in AuthMode : CallGetSession(c, a, m)
  \/ CallStep
  \/ ExpireToken
  \/ \E k \in SessionKeys : ExpireSession(k)

SpecTerm == Init /\ [][NextTerm]_vars /\ WF_vars(CallStep)

\* ==================================================================== claims
IsBlank(text) == \A i \in 1 .. Len(text) : text[i] = " "
Is4xx(status) == status >= 400 /\ status <= 499
SendCalls == {c \in Callers : call[c].op = "sendStreamingMessage"}
NewSessionCalls == {c \in Callers : call[c].op = "newSession"}
EndSessionCalls == {c \in Callers : call[c].op = "endSession"}
ValidationMessages == {"Message text cannot be empty", "Invalid sequence ID"}

\* C1: a sendStreamingMessage call whose text is empty or whitespace-only, or
\* whose sequenceId is negative, has failed with a validation error and has
\* issued no request at all: no OAuth request, no broker call, no
\* session-create POST, no message POST.
C1_ValidationBeforeNetwork ==
  \A c \in SendCalls :
    (IsBlank(call[c].text) \/ call[c].seq < 0) =>
      /\ call[c].pc = "done"
      /\ call[c].result.kind = "err"
      /\ call[c].result.err.msg[1] \in ValidationMessages
      /\ call[c].req = NoReq
      /\ call[c].nCreate = 0 /\ call[c].nMsg = 0 /\ call[c].nDelete = 0

\* C1 witness: a whitespace-only text is rejected in applink mode while a
\* token and a session are cached.
C1_Witness ==
  \E c \in SendCalls :
    /\ call[c].text # <<>> /\ IsBlank(call[c].text)
    /\ call[c].mode = "applink"
    /\ call[c].pc = "done" /\ call[c].result.kind = "err"
    /\ tokenCache # NoCreds
    /\ CachedIds(sessionCache) # {}

\* C2: a sendStreamingMessage call with valid input issues at most one
\* message POST; once that POST is answered the call is over: on success it
\* has made exactly one POST and returns the answered stream as it is, on
\* failure it raises and makes no second POST.
C2_OneMessagePost ==
  \A c \in SendCalls :
    (~IsBlank(call[c].text) /\ call[c].seq >= 0) =>
      /\ call[c].nMsg <= 1
      /\ (call[c].nMsg = 1 /\ call[c].pc # "req_wait") => call[c].pc = "done"
      /\ (call[c].pc = "done" /\ call[c].result.kind = "ok") =>
           /\ call[c].nMsg = 1
           /\ call[c].answer.status = 200
           /\ call[c].answer.data \in Streams
           /\ call[c].result.data = call[c].answer.data
      /\ (call[c].pc = "done" /\ call[c].nMsg = 1 /\ call[c].answer.status # 200) =>
           call[c].result.kind = "err"

\* C2 witness: a message POST made after a retried session creation succeeds.
C2_Witness ==
  \E c \in SendCalls :
    /\ call[c].pc = "done" /\ call[c].result.kind = "ok"
    /\ call[c].result.data = "stream-2"
    /\ call[c].nCreate = 2

\* C2 witness of the failure half: the message POST failed and is surfaced.
C2_WitnessFailure ==
  \E c \in SendCalls :
    /\ call[c].pc = "done" /\ call[c].result.kind = "err"
    /\ call[c].nMsg = 1 /\ call[c].answer.status = 503

\* C3 (as claimed): when the first session-create POST of newSession is
\* answered with a 4xx status, newSession has failed at once: no backoff
\* delay, no further attempt.
C3_NoRetryOn4xx ==
  \A c \in NewSessionCalls :
    (call[c].req.kind = "create" /\ Is4xx(call[c].answer.status) /\ call[c].nCreate = 1
       /\ call[c].attempt = 0) =>
      /\ call[c].pc = "done"
      /\ call[c].result.kind = "err"
      /\ call[c].delays = <<>>

\* C4: when the session-create POST of newSession is answered 503 on attempts
\* 1 and 2 and succeeds on attempt 3, newSession returns the session of that
\* answer, three POSTs were made, and the delays were 1500 ms then 3000 ms.
C4_RetryOn503 ==
  \A c \in NewSessionCalls :
    (call[c].pc = "done" /\ call[c].result.kind = "ok" /\ call[c].only503
       /\ Len(call[c].delays) = 2) =>
      /\ call[c].nCreate = 3
      /\ call[c].delays = <<1500, 3000>>
      /\ call[c].result.sessionId # 0
      /\ call[c].result.sessionId = call[c].answer.sessionId

C4_Witness ==
  \E c \in NewSessionCalls :
    /\ call[c].pc = "done" /\ call[c].result.kind = "ok" /\ call[c].only503
    /\ call[c].nCreate = 3
    /\ call[c].delays = <<1500, 3000>>

\* C5: a newSession attempt that fails by anything but a 4xx answer is
\* retried as long as fewer than 3 attempts were made; a newSession that
\* has failed after 3 attempts raises the error of its last attempt.
C5_RetryUntilExhausted ==
  \A c \in NewSessionCalls :
    /\ (call[c].pc = "done" /\ call[c].result.kind = "err" /\ ~Is4xx(call[c].answer.status)) =>
         (call[c].attempt = MaxRetries /\ Len(call[c].delays) = MaxRetries)
    /\ (call[c].pc = "done" /\ call[c].result.kind = "err" /\ call[c].attempt = MaxRetries) =>
         (call[c].result.err = call[c].bodyErr /\ call[c].bodyErr # NoError)

\* C5 witness: three attempts failed in three different ways (no response,
\* 503, missing session id); the error raised is that of the third.
C5_Witness ==
  \E c \in NewSessionCalls :
    /\ call[c].pc = "done" /\ call[c].result.kind = "err"
    /\ call[c].attempt = MaxRetries
    /\ call[c].nCreate = 3
    /\ ~call[c].only503
    /\ call[c].answer.defect = "no sessionId"
    /\ call[c].result.err.msg = <<"Invalid session response", "missing session ID">>

\* C6 (as claimed): after every completed endSession call no session cache
\* entry remains, whatever the outcome of the call.
C6_EndSessionPurges ==
  \A c \in EndSessionCalls :
    call[c].pc = "done" => sessionCache = EmptySessionCache

\* C7 (as claimed): a session resolution made by the call that follows a
\* completed endSession creates a new remote session (the call issues a
\* session-create POST) and does not yield a session id that was cached when
\* that endSession completed.
C7_FreshSessionAfterEnd ==
  \A c \in Callers :
    (call[c].sinceEnd.fresh /\ call[c].sid # 0) =>
      /\ call[c].nCreate >= 1
      /\ call[c].sid \notin call[c].sinceEnd.ids

\* C8: endSession never raises; whenever credential resolution, session
\* resolution or the DELETE request failed, it returns null.
C8_EndSessionNeverRaises ==
  \A c \in EndSessionCalls :
    call[c].pc = "done" =>
      /\ call[c].result.kind = "ok"
      /\ (call[c].nDelete = 0 \/ call[c].answer.status # 200) => call[c].result = ReturnedNull

\* C8 witness: the DELETE was answered 404.
C8_Witness ==
  \E c \in EndSessionCalls :
    /\ call[c].pc = "done"
    /\ call[c].nDelete = 1 /\ call[c].answer.status = 404
    /\ call[c].result = ReturnedNull

\* C8 witness: the session could not be resolved, no DELETE was made.
C8_WitnessNoSession ==
  \E c \in EndSessionCalls :
    /\ call[c].pc = "done"
    /\ call[c].nDelete = 0 /\ call[c].nCreate = 3
    /\ call[c].result = ReturnedNull

\* C9: the base URL of every session-create, message and session-delete
\* request follows the auth mode of the call: in direct mode it is the
\* api_instance_url of the OAuth grant whose access token the request bears,
\* in applink mode it is https://api.salesforce.com.
C9_BaseUrlByMode ==
  \A c \in Callers :
    call[c].req.kind \in {"create", "message", "delete"} =>
      IF call[c].mode = "direct"
        THEN \E g \in OAuthGrants :
               /\ g.access_token = call[c].req.bearer
               /\ g.api_instance_url = call[c].req.base
        ELSE /\ call[c].req.base = "https://api.salesforce.com"
             /\ call[c].req.bearer \in AppLinkTokens

\* C9 witness: a direct-mode message POST goes to the instance URL of the
\* grant, which is not the fixed host.
C9_Witness ==
  \E c \in SendCalls :
    /\ call[c].mode = "direct"
    /\ call[c].req.kind = "message"
    /\ call[c].req.bearer = "direct-token-1"
    /\ call[c].req.base = "https://custom-api.salesforce.com"

\* C9 witness: an applink-mode session DELETE goes to the fixed host.
C9_WitnessAppLink ==
  \E c \in EndSessionCalls :
    /\ call[c].mode = "applink"
    /\ call[c].req.kind = "delete"
    /\ call[c].req.base = "https://api.salesforce.com"

\* C10: when the OAuth answer of a newSession attempt lacks access_token or
\* api_instance_url, the attempt fails with an error whose message begins
\* "Authentication failed" and issues no session-create POST; a newSession
\* that ends there raises that error.
C10_IncompleteOAuthAnswer ==
  \A c \in NewSessionCalls :
    (call[c].req.kind = "oauth" /\ call[c].answer.status = 200
       /\ call[c].answer.defect \in {"no access_token", "no api_instance_url"}) =>
      /\ call[c].pc \in {"backoff", "done"}
      /\ call[c].bodyErr.msg[1] = "Authentication failed"
      /\ ~call[c].bodyErr.axios
      /\ call[c].pc = "done" =>
           (call[c].result.kind = "err" /\ call[c].result.err.msg[1] = "Authentication failed")

\* C10 witness: every OAuth answer of the call lacked api_instance_url; the
\* call has failed without any session-create POST.
C10_Witness ==
  \E c \in NewSessionCalls :
    /\ call[c].pc = "done" /\ call[c].result.kind = "err"
    /\ call[c].req.kind = "oauth" /\ call[c].answer.defect = "no api_instance_url"
    /\ call[c].nCreate = 0
    /\ call[c].result.err.msg = <<"Authentication failed", "Unable to connect to Salesforce">>

BrokerDefects == {"no accessToken"}
BrokerRefused(r) ==
  /\ r.req.kind = "broker"
  /\ (r.answer.data = "rejected" \/ r.answer.defect \in BrokerDefects)

\* C11: when the broker call of a newSession attempt is rejected, or answers
\* an authorization without accessToken, the attempt fails with a plain
\* error whose message begins "AppLink authentication failed" and issues no
\* session-create POST; a newSession that ends there raises that error.
C11_AppLinkFailureClassified ==
  \A c \in NewSessionCalls :
    BrokerRefused(call[c]) =>
      /\ call[c].mode = "applink"
      /\ call[c].pc \in {"backoff", "done"}
      /\ call[c].bodyErr.msg[1] = "AppLink authentication failed"
      /\ ~call[c].bodyErr.axios
      /\ call[c].pc = "done" =>
           /\ call[c].result.kind = "err"
           /\ call[c].result.err.msg[1] = "AppLink authentication failed"

\* C11 witness: every broker answer of the call lacked the accessToken; the
\* call has failed without any session-create POST.
C11_Witness ==
  \E c \in NewSessionCalls :
    /\ call[c].pc = "done" /\ call[c].result.kind = "err"
    /\ call[c].req.kind = "broker" /\ call[c].answer.defect = "no accessToken"
    /\ call[c].nCreate = 0
    /\ call[c].result.err.msg[1] = "AppLink authentication failed"

\* C11 witness: the broker call itself was rejected.
C11_WitnessRejected ==
  \E c \in NewSessionCalls :
    /\ call[c].pc = "done" /\ call[c].result.kind = "err"
    /\ call[c].req.kind = "broker" /\ call[c].answer.data = "rejected"
    /\ call[c].result.err.msg =
         <<"AppLink authentication failed", "AppLink service unavailable">>

\* C12 (as claimed): both credential providers are memoized.  A token request
\* goes to the OAuth server only while no resolved token is memoized, and a
\* call that has resolved the credentials of its mode, and resolves them
\* again within the validity window, gets them without an OAuth request and
\* without a broker call.
C12_ProvidersMemoized ==
  \A c \in Callers :
    /\ call[c].pc = "oauth_wait" => tokenCache = NoCreds
    /\ call[c].creds # NoCreds => call[c].pc \notin {"oauth_wait", "broker_wait"}

NoAgentMessage == "No agent ID provided and no default agent configured"

\* C13 (as claimed): when newSession is called without agentId and no default
\* agent is configured, the attempt that finds no agent id ends the call: the
\* call has failed with the configuration error, it is not retried, no
\* backoff delay follows a first attempt and no session-create POST is made.
C13_NoAgentFailsFast ==
  \A c \in NewSessionCalls :
    (call[c].agent = NoAgent /\ defaultAgent = NoAgent
       /\ call[c].bodyErr.msg[1] = NoAgentMessage) =>
      /\ call[c].pc = "done"
      /\ call[c].result.kind = "err"
      /\ call[c].result.err.msg[1] = NoAgentMessage
      /\ call[c].nCreate = 0
      /\ call[c].attempt = 0 => call[c].delays = <<>>

\* C14 (as claimed): in direct mode, when the token request of a newSession
\* attempt is answered 401, the error is "Authentication failed: Invalid
\* client credentials" and the call is over: it has failed with that error,
\* without a backoff delay and without a further token request.
C14_OAuth401NotRetried ==
  \A c \in NewSessionCalls :
    (call[c].mode = "direct" /\ call[c].req.kind = "oauth" /\ call[c].answer.status = 401) =>
      /\ call[c].bodyErr.msg = <<"Authentication failed", "Invalid client credentials">>
      /\ call[c].pc = "done"
      /\ call[c].result.kind = "err"
      /\ call[c].result.err = call[c].bodyErr
      /\ call[c].attempt = 0 => call[c].delays = <<>>

\* The getCredentials invocations a call has made inside newSession: all of
\* them but the one endSession and sendStreamingMessage make themselves.
NestedResolutions(r) ==
  IF r.op \in {"endSession", "sendStreamingMessage"} /\ r.nCreds > 0
    THEN r.nCreds - 1 ELSE r.nCreds

\* C15: in every call chain the order is fixed.  A session-create, message or
\* DELETE request bears resolved credentials, and no more session-create
\* POSTs are made than credential resolutions inside newSession; endSession
\* and sendStreamingMessage begin the session resolution only with their
\* credentials resolved, and issue the message POST or the DELETE only with
\* both the credentials and the session resolved, and built from them.
C15_ResolutionOrder ==
  \A c \in Callers :
    LET r == call[c] IN
    /\ r.req.kind \in {"create", "message", "delete"} =>
         (r.req.bearer # "" /\ r.req.base # "")
    /\ r.nCreate <= NestedResolutions(r)
    /\ r.op \in {"endSession", "sendStreamingMessage"} =>
         /\ (r.pc = "session" \/ r.nested \/ r.sid # 0) => r.creds # NoCreds
         /\ (r.nMsg + r.nDelete > 0) => (r.creds # NoCreds /\ r.sid # 0)
         /\ r.req.kind \in {"message", "delete"} =>
              /\ r.req.bearer = r.creds.accessToken
              /\ r.req.base = r.creds.apiInstanceUrl
              /\ r.req.sid = r.sid

\* C15 witness: a message POST made after a credential resolution and a
\* session creation of the same call.
C15_Witness ==
  \E c \in SendCalls :
    /\ call[c].req.kind = "message"
    /\ call[c].nCreds = 2 /\ call[c].nCreate = 1
    /\ call[c].req.sid = call[c].sid /\ call[c].sid # 0

\* C15 witness: a DELETE made for a session that was already memoized.
C15_WitnessDelete ==
  \E c \in EndSessionCalls :
    /\ call[c].req.kind = "delete"
    /\ call[c].nCreds = 1 /\ call[c].nCreate = 0
    /\ call[c].req.bearer = call[c].creds.accessToken

\* C19: every attempt of newSession runs the whole body: getCredentials is
\* invoked once per attempt, before the session-create POST of that attempt.
\* While attempt k (from 0) waits for an answer or backs off, k + 1
\* invocations were made; a finished newSession that waited d delays made
\* d + 1 attempts and d + 1 invocations, at most 3; at most one POST follows
\* each invocation.
C19_CredentialsPerAttempt ==
  \A c \in NewSessionCalls :
    /\ call[c].pc = "creds" => call[c].nCreds = call[c].attempt
    /\ call[c].pc \in {"oauth_wait", "broker_wait", "post_wait", "backoff"} =>
         call[c].nCreds = call[c].attempt + 1
    /\ call[c].pc = "done" => call[c].nCreds = Len(call[c].delays) + 1
    /\ call[c].nCreds <= MaxRetries + 1
    /\ call[c].nCreate <= call[c].nCreds
    /\ call[c].pc = "post_wait" => call[c].req.kind = "create"

\* C19 witness: three attempts, three credential resolutions, of which two
\* were followed by a session-create POST.
C19_Witness ==
  \E c \in NewSessionCalls :
    /\ call[c].pc = "done"
    /\ Len(call[c].delays) = 2
    /\ call[c].nCreds = 3
    /\ call[c].nCreate = 2

\* The classes of a failed message POST, by the first words of the message.
MessageErrorClasses ==
  {"Request timeout", "Authentication expired", "Access denied", "Session not found",
   "Rate limit exceeded",
   "Agentforce service is temporarily unavailable. Please try again in a few moments",
   "Failed to send message"}

\* The class the claim gives an answer of the transport: kind is "timeout",
\* "network" or "http", status the HTTP status (0 without a response).
MessageErrorClass(kind, status) ==
  IF kind = "timeout" THEN "Request timeout"
  ELSE IF status = 401 THEN "Authentication expired"
  ELSE IF status = 403 THEN "Access denied"
  ELSE IF status = 404 THEN "Session not found"
  ELSE IF status = 429 THEN "Rate limit exceeded"
  ELSE IF status >= 500
    THEN "Agentforce service is temporarily unavailable. Please try again in a few moments"
  ELSE "Failed to send message"

\* C20: a sendStreamingMessage call whose message POST failed raises a plain
\* error of exactly one class, the one the ordered table gives for the answer:
\* timeout, 401, 403, 404, 429, status >= 500, and "Failed to send message"
\* for every other failure of the transport.
C20_MessageFailureClassified ==
  \A c \in SendCalls :
    (call[c].pc = "done" /\ call[c].nMsg = 1 /\ call[c].answer.status # 200) =>
      /\ call[c].result.kind = "err"
      /\ ~call[c].result.err.axios
      /\ call[c].result.err.msg[1] \in MessageErrorClasses
      /\ call[c].result.err.msg[1] =
           MessageErrorClass(call[c].answer.data, call[c].answer.status)

\* C20 witness: a message POST answered 429 is classified as rate limited.
C20_Witness ==
  \E c \in SendCalls :
    /\ call[c].pc = "done" /\ call[c].nMsg = 1
    /\ call[c].answer.status = 429
    /\ call[c].result.err.msg[1] = "Rate limit exceeded"

\* C20 witness: a message POST that got no response at all falls into the
\* generic class.
C20_WitnessGeneric ==
  \E c \in SendCalls :
    /\ call[c].pc = "done" /\ call[c].nMsg = 1
    /\ call[c].answer.data = "network"
    /\ call[c].result.err.msg = <<"Failed to send message", "Network error">>

GetSessionCalls == {c \in Callers : call[c].op = "getSession"}

\* The memoized session for the arguments of the call, 0 if there is none.
\* An entry is there from a successful getSession with these arguments until
\* its window ends or a successful endSession purges it.
Memoized(r) == sessionCache[<<r.agent, r.mode>>]

\* C17: a getSession invoked while the session of an earlier successful
\* getSession with the same arguments is memoized (its window has not ended,
\* no endSession has purged it) yields that session id at once: no
\* session-create POST, no credential resolution, the entry stays as it is.
\* And a call that has resolved a session and waits for its message POST or
\* its DELETE finds that session memoized for its arguments.
C17_CachedSessionReused ==
  /\ [](\A c \in Callers :
          (call[c].pc = "req_wait" /\ call[c].sid # 0) => Memoized(call[c]) = call[c].sid)
  /\ [][\A c \in Callers :
          (call[c].pc = "session" /\ Memoized(call[c]) # 0 /\ call'[c] # call[c]) =>
            /\ call'[c].sid = Memoized(call[c])
            /\ call'[c].nCreate = call[c].nCreate
            /\ call'[c].nCreds = call[c].nCreds
            /\ call'[c].pc \in {"done", "req_wait"}
            /\ sessionCache' = sessionCache]_vars

\* C17 witness: a getSession call has returned the memoized session without
\* any request of its own.
C17_Witness ==
  \E c \in GetSessionCalls :
    /\ call[c].pc = "done" /\ call[c].result.kind = "ok"
    /\ call[c].req = NoReq
    /\ call[c].result.sessionId # 0
    /\ call[c].result.sessionId = Memoized(call[c])

KeyOf(r) == <<r.agent, r.mode>>
CreatedSessions == 1 .. (nextSid - 1)
GrantCredentials ==
  {[accessToken |-> g.access_token, apiInstanceUrl |-> g.api_instance_url] : g \in OAuthGrants}
Greatest(S) == CHOOSE x \in S : \A y \in S : y <= x

\* The sessions the callers have resolved for the argument list k.  Sessions
\* are numbered in the order in which their creation settles.
ResolvedFor(k) == {call[c].sid : c \in {d \in Callers : KeyOf(call[d]) = k /\ call[d].sid # 0}}

\* Every value handed to a caller or held by a cache is a whole one: a
\* session the platform created, a grant's token with that grant's URL.
RaceValuesWhole ==
  /\ tokenCache \in GrantCredentials \cup {NoCreds}
  /\ \A k \in SessionKeys : sessionCache[k] \in CreatedSessions \cup {0}
  /\ \A c \in Callers :
       /\ call[c].sid \in CreatedSessions \cup {0}
       /\ (call[c].mode = "direct") => call[c].creds \in GrantCredentials \cup {NoCreds}
       /\ (call[c].op = "getSession" /\ call[c].pc = "done" /\ call[c].result.kind = "ok") =>
            (call[c].result.sessionId = call[c].sid /\ call[c].sid # 0)
       /\ (call[c].pc = "req_wait") => (call[c].sid # 0 /\ call[c].creds # NoCreds)

\* The entry of an argument list is the session that settled last for it.
RaceLastSettled ==
  \A k \in SessionKeys :
    IF ResolvedFor(k) = {} THEN sessionCache[k] = 0
    ELSE sessionCache[k] = Greatest(ResolvedFor(k))

\* C16: when two callers race, each may run its own cold resolution; in every
\* interleaving each caller gets a whole, valid value (a created session, a
\* grant's token with its URL), each cache entry is one whole value, the
\* session entry of an argument list is the session that settled last for
\* it, and a token request that settles with a grant leaves that grant as
\* the memoized token.
C16_RacingResolutions ==
  /\ [](RaceValuesWhole /\ RaceLastSettled)
  /\ [][\A c \in Callers :
          (call[c].pc = "oauth_wait" /\ call'[c].pc # "oauth_wait"
             /\ call'[c].answer.status = 200) =>
            /\ tokenCache' \in GrantCredentials
            /\ tokenCache'.accessToken = call'[c].answer.data]_vars

\* C16 witness: both callers missed the cache for the same arguments, each
\* created a session of its own, both have settled, and the entry is the
\* later of the two sessions.
C16_Witness ==
  /\ KeyOf(call["c1"]) = KeyOf(call["c2"])
  /\ \A c \in Callers : call[c].pc = "done" /\ call[c].nCreate >= 1 /\ call[c].sid # 0
  /\ call["c1"].sid # call["c2"].sid
  /\ sessionCache[KeyOf(call["c1"])] = 2

\* C16 witness: both callers found no memoized token and both wait for the
\* OAuth server.
C16_WitnessToken ==
  \A c \in Callers : call[c].pc = "oauth_wait"

ModeCredentials(mode) ==
  IF mode = "applink"
    THEN {[accessToken |-> t, apiInstanceUrl |-> "https://api.salesforce.com"] : t \in AppLinkTokens}
    ELSE GrantCredentials

\* C18: in every interleaving of calls of both modes, an applink call never
\* asks the OAuth server and a direct call never asks the broker; the
\* credentials a call holds, and the bearer token and base URL of each
\* session-create and message request it issues, are credentials of the
\* provider of the mode passed to that call.
C18_ModePerCall ==
  \A c \in Callers :
    LET r == call[c] IN
    /\ r.mode = "applink" => r.req.kind # "oauth"
    /\ r.mode = "direct" => r.req.kind # "broker"
    /\ r.creds \in ModeCredentials(r.mode) \cup {NoCreds}
    /\ r.req.kind \in {"create", "message"} =>
         [accessToken |-> r.req.bearer, apiInstanceUrl |-> r.req.base] \in ModeCredentials(r.mode)

\* C18 witness: while a direct token is memoized and a direct call waits for
\* its message POST, an applink call waits for a POST bearing the broker's
\* token.
C18_Witness ==
  \E c \in Callers, d \in Callers :
    /\ call[c].mode = "direct" /\ call[c].req.kind = "message" /\ call[c].pc = "req_wait"
    /\ call[d].mode = "applink" /\ call[d].req.kind = "create" /\ call[d].pc = "post_wait"
    /\ call[d].req.bearer \in AppLinkTokens
    /\ tokenCache # NoCreds

\* The class the claim gives a session-create POST answered with a status
\* outside 2xx, as the message <<prefix, detail>>.
SessionErrorClass(status) ==
  IF status = 401 THEN <<"Session creation failed", "Authentication expired">>
  ELSE IF status = 403 THEN <<"Session creation failed", "Access denied to Agentforce agent">>
  ELSE IF status = 404 THEN <<"Session creation failed", "Agentforce agent not found">>
  ELSE IF status >= 500
    THEN <<"Session creation failed", "Agentforce service temporarily unavailable">>
  ELSE <<"Session creation failed", StatusText(status)>>

\* C21 (as claimed): a session-create POST of newSession answered with a
\* status outside 2xx fails the attempt with the error of its class (401,
\* 403, 404, >= 500, any other with the status text); after 401, 403 or 404
\* the call is over, without retry; after a status >= 500 the attempt is
\* retried while attempts are left.
C21_SessionFailureClassified ==
  \A c \in NewSessionCalls :
    (call[c].req.kind = "create" /\ call[c].answer.status >= 300) =>
      /\ call[c].bodyErr.msg = SessionErrorClass(call[c].answer.status)
      /\ ~call[c].bodyErr.axios
      /\ call[c].answer.status \in {401, 403, 404} =>
           (call[c].pc = "done" /\ call[c].result.kind = "err")
      /\ (call[c].answer.status >= 500 /\ call[c].attempt < MaxRetries) =>
           call[c].pc = "backoff"

\* The message the claim gives a failed token request: kind is "timeout",
\* "network" (no HTTP response) or "http", status the HTTP status.
TokenErrorDetail(kind, status) ==
  IF kind \in {"timeout", "network"} THEN "Unable to connect to Salesforce"
  ELSE IF status = 401 THEN "Invalid client credentials"
  ELSE IF status >= 500 THEN "Salesforce service temporarily unavailable"
  ELSE ToString(status)

\* C22 (as claimed): a newSession attempt whose token request failed raises
\* an authentication error whose detail is: "Unable to connect to
\* Salesforce" for a timeout and for a connection failure without HTTP
\* response, "Invalid client credentials" for 401, "Salesforce service
\* temporarily unavailable" for a status >= 500, and the status itself for
\* any other status.
C22_TokenFailureClassified ==
  \A c \in NewSessionCalls :
    (call[c].req.kind = "oauth" /\ call[c].answer.data \in {"timeout", "network", "http"}) =>
      /\ ~call[c].bodyErr.axios
      /\ call[c].bodyErr.msg[1] \in {"Authentication failed", "Authentication timeout"}
      /\ call[c].bodyErr.msg[2] = TokenErrorDetail(call[c].answer.data, call[c].answer.status)

CredentialErrorPrefixes ==
  {"Authentication failed", "Authentication timeout", "AppLink authentication failed"}

\* C23: a sendStreamingMessage call that fails before its message POST raises
\* the error as it was raised: the validation error of the rejected input,
\* the error of its own credential resolution, or the error that the last
\* attempt of the session resolution ended with, never a dispatcher class.
C23_OtherErrorsUnchanged ==
  \A c \in SendCalls :
    (call[c].pc = "done" /\ call[c].result.kind = "err" /\ call[c].nMsg = 0) =>
      /\ ~call[c].result.err.axios
      /\ call[c].result.err.msg[1] \notin MessageErrorClasses
      /\ call[c].nCreds = 0 =>
           call[c].result.err.msg =
             IF IsBlank(call[c].text) THEN <<"Message text cannot be empty", "">>
             ELSE <<"Invalid sequence ID", "">>
      /\ call[c].nCreds = 1 =>
           /\ call[c].req.kind \in {"oauth", "broker"}
           /\ call[c].result.err.msg[1] \in CredentialErrorPrefixes
      /\ call[c].nCreds >= 2 =>
           /\ call[c].bodyErr # NoError
           /\ call[c].result.err = call[c].bodyErr

\* C23 witness: the session resolution of the call failed three times, the
\* last time by a 404 answer; the caller gets the session-creation error.
C23_Witness ==
  \E c \in SendCalls :
    /\ call[c].pc = "done" /\ call[c].nMsg = 0 /\ call[c].nCreate = 3
    /\ call[c].answer.status = 404
    /\ call[c].result.err.msg = <<"Session creation failed", "Agentforce agent not found">>

\* C23 witness: the call's own credential resolution failed.
C23_WitnessCredentials ==
  \E c \in SendCalls :
    /\ call[c].pc = "done" /\ call[c].nCreds = 1 /\ call[c].nMsg = 0
    /\ call[c].result.err.msg = <<"Authentication failed", "Invalid client credentials">>

\* C24: newSession never returns a value without a session id.  A 2xx answer
\* to the session-create POST that lacks sessionId fails the attempt with
\* "Invalid session response: missing session ID"; a call that ends there
\* raises it; a session resolution that succeeded yielded a created session;
\* and no entry of the session cache is ever made of such an answer.
C24_SessionIdRequired ==
  /\ \A k \in SessionKeys : sessionCache[k] \in 0 .. (nextSid - 1)
  /\ \A c \in Callers :
       /\ (call[c].op \in {"newSession", "getSession"} /\ call[c].pc = "done"
             /\ call[c].result.kind = "ok") =>
            call[c].result.sessionId \in 1 .. (nextSid - 1)
       /\ call[c].pc = "req_wait" => call[c].sid \in 1 .. (nextSid - 1)
       /\ call[c].answer.defect = "no sessionId" =>
            /\ call[c].pc \in {"backoff", "done"}
            /\ call[c].bodyErr.msg = <<"Invalid session response", "missing session ID">>
            /\ call[c].sid = 0
            /\ call[c].op # "newSession" => sessionCache[<<call[c].agent, call[c].mode>>] = 0
            /\ (call[c].pc = "done" /\ call[c].op # "endSession") =>
                 call[c].result.kind = "err"

\* C24 witness: a getSession call has failed because every 2xx answer lacked
\* the sessionId; nothing was memoized.
C24_Witness ==
  \E c \in GetSessionCalls :
    /\ call[c].pc = "done" /\ call[c].result.kind = "err"
    /\ call[c].answer.status = 200 /\ call[c].answer.defect = "no sessionId"
    /\ call[c].nCreate = 3
    /\ sessionCache[<<call[c].agent, call[c].mode>>] = 0

\* The calls that resolve their session through getSession.
ThroughGetSession == {c \in Callers : call[c].op # "newSession" /\ call[c].sid # 0}

\* C25 (as claimed): getSession memoizes under one slot for all argument
\* lists: a call whose session resolution created a session found nothing
\* memoized, for any agent id or mode, so its session is the only one the
\* cache can hold.
C25_SingleSlot ==
  \A c \in ThroughGetSession :
    call[c].nCreate >= 1 => CachedIds(sessionCache) \subseteq {call[c].sid}

\* C25 (amended): getSession memoizes per argument list (agentId, authMode).
\* The session a call resolves is never one that is memoized for other
\* arguments, and while the call waits for its request the session is the
\* entry of its own arguments.
C25_MemoizedPerArguments ==
  \A c \in ThroughGetSession :
    /\ \A k \in SessionKeys \ {<<call[c].agent, call[c].mode>>} :
         sessionCache[k] # call[c].sid
    /\ call[c].pc = "req_wait" =>
         sessionCache[<<call[c].agent, call[c].mode>>] = call[c].sid

\* C25 witness: while session 1 is memoized for the default agent, a
\* getSession call for agent-A in the same mode has created session 2, and
\* both entries are there.
C25_Witness ==
  \E c \in GetSessionCalls :
    /\ call[c].agent = "agent-A"
    /\ call[c].pc = "done" /\ call[c].nCreate = 1 /\ call[c].sid = 2
    /\ sessionCache[<<NoAgent, call[c].mode>>] = 1
    /\ sessionCache[<<"agent-A", call[c].mode>>] = 2

\* C26: credentials are never invalidated explicitly.  No step of an
\* endSession call, successful or not, changes a memoized token, and no step
\* of any call does: a memoized token only goes when its window ends.
C26_TokenNeverInvalidated ==
  [][/\ \A c \in Callers :
          (call[c].op = "endSession" /\ call'[c] # call[c] /\ tokenCache # NoCreds) =>
            tokenCache' = tokenCache
     /\ (tokenCache # NoCreds /\ tokenCache' # tokenCache) =>
          (tokenCache' = NoCreds /\ call' = call)]_vars

\* C26 witness: an endSession call has deleted the session and purged the
\* session cache; the token it used is still memoized.
C26_Witness ==
  \E c \in EndSessionCalls :
    /\ call[c].pc = "done" /\ call[c].answer.status = 200 /\ call[c].nDelete = 1
    /\ sessionCache = EmptySessionCache
    /\ tokenCache # NoCreds
    /\ tokenCache = call[c].creds

\* C26 witness: the same after an endSession whose DELETE failed.
C26_WitnessFailed ==
  \E c \in EndSessionCalls :
    /\ call[c].pc = "done" /\ call[c].answer.status = 503 /\ call[c].nDelete = 1
    /\ tokenCache # NoCreds
    /\ tokenCache = call[c].creds

\* C27: a 401 answer to a session-create POST or to a message POST changes
\* neither cache: the step that takes the answer leaves the memoized token
\* and every session entry as they are, and while the call goes on after
\* the 401 the memoized direct token is still the one the request bore.
C27_No401Refresh ==
  /\ [](\A c \in Callers :
          (call[c].req.kind \in {"create", "message"} /\ call[c].answer.status = 401
             /\ call[c].mode = "direct" /\ call[c].pc # "done") =>
            tokenCache.accessToken = call[c].req.bearer)
  /\ [][\A c \in Callers :
          (call[c].pc \in {"post_wait", "req_wait"} /\ call'[c] # call[c]
             /\ call'[c].answer.status = 401) =>
            (tokenCache' = tokenCache /\ sessionCache' = sessionCache)]_vars

\* C27 witness: a message POST was answered 401; the token it bore and the
\* session it addressed are still memoized.
C27_Witness ==
  \E c \in SendCalls :
    /\ call[c].req.kind = "message" /\ call[c].answer.status = 401
    /\ call[c].mode = "direct"
    /\ tokenCache.accessToken = call[c].req.bearer
    /\ sessionCache[<<call[c].agent, call[c].mode>>] = call[c].req.sid

\* C27 witness: a session-create POST was answered 401 and the call backs
\* off with the rejected token still memoized.
C27_WitnessCreate ==
  \E c \in Callers :
    /\ call[c].req.kind = "create" /\ call[c].answer.status = 401
    /\ call[c].pc = "backoff" /\ call[c].mode = "direct"
    /\ tokenCache.accessToken = call[c].req.bearer

\* The text t with nothing but spaces taken off its two ends.
StrippedOf(t) ==
  {SubSeq(t, i + 1, Len(t) - j) : i \in 0 .. Len(t), j \in 0 .. Len(t)} \cap
  {u \in Seq(Chars) : \E i \in 0 .. Len(t), j \in 0 .. Len(t) :
        /\ u = SubSeq(t, i + 1, Len(t) - j)
        /\ \A k \in 1 .. i : t[k] = " "
        /\ \A k \in (Len(t) - j + 1) .. Len(t) : t[k] = " "}

\* C28: every message sendStreamingMessage puts on the wire has the
\* sequenceId of the call, unchanged and not negative, the type "Text", and
\* as text the input with the spaces taken off both ends, which is not empty
\* and neither starts nor ends with a space.
C28_MessageOnTheWire ==
  \A c \in Callers :
    call[c].req.kind = "message" =>
      /\ call[c].op = "sendStreamingMessage"
      /\ call[c].req.seq = call[c].seq
      /\ call[c].req.seq >= 0
      /\ call[c].req.type = "Text"
      /\ call[c].req.text \in StrippedOf(call[c].text)
      /\ Len(call[c].req.text) > 0
      /\ call[c].req.text[1] # " "
      /\ call[c].req.text[Len(call[c].req.text)] # " "

\* C28 witness: a message whose input had spaces around it was posted
\* without them, with its sequenceId.
C28_Witness ==
  \E c \in SendCalls :
    /\ call[c].req.kind = "message"
    /\ call[c].text = <<" ", "a", " ">>
    /\ call[c].req.text = <<"a">>
    /\ call[c].req.seq = 0 /\ call[c].seq = 0

\* C29: the agent id in the URL of a session-create POST is the agentId
\* argument of the call when one is given, whatever default is configured,
\* and the configured default otherwise; it is never missing.
C29_TargetAgent ==
  \A c \in Callers :
    call[c].req.kind = "create" =>
      /\ call[c].agent # NoAgent => call[c].req.agent = call[c].agent
      /\ call[c].agent = NoAgent => call[c].req.agent = defaultAgent
      /\ call[c].req.agent # NoAgent

\* C29 witness: a session was requested for the explicit agent although a
\* default agent is configured.
C29_Witness ==
  \E c \in Callers :
    /\ call[c].req.kind = "create"
    /\ call[c].agent = "agent-A" /\ defaultAgent = "agent-D"
    /\ call[c].req.agent = "agent-A"

\* C29 witness: without an argument the session was requested for the
\* configured default agent.
C29_WitnessDefault ==
  \E c \in Callers :
    /\ call[c].req.kind = "create"
    /\ call[c].agent = NoAgent
    /\ call[c].req.agent = "agent-D"

\* C30 (as claimed): the token request has a 10 s timeout, both session
\* lifecycle requests (create POST and end DELETE) 15 s, the message POST
\* 30 s.
C30_LifecycleTimeouts ==
  \A c \in Callers :
    /\ call[c].req.kind = "oauth" => call[c].req.timeout = 10000
    /\ call[c].req.kind \in {"create", "delete"} => call[c].req.timeout = 15000
    /\ call[c].req.kind = "message" => call[c].req.timeout = 30000

\* C30 (amended): the token request has a 10 s timeout, the session-create
\* POST 15 s, the session-end DELETE 10 s, the message POST 30 s.
C30_RequestTimeouts ==
  \A c \in Callers :
    /\ call[c].req.kind = "oauth" => call[c].req.timeout = 10000
    /\ call[c].req.kind = "create" => call[c].req.timeout = 15000
    /\ call[c].req.kind = "delete" => call[c].req.timeout = 10000
    /\ call[c].req.kind = "message" => call[c].req.timeout = 30000

\* C30 witness: a session-end DELETE went out with its 10 s timeout after a
\* session-create POST of the same call chain.
C30_Witness ==
  \E c \in EndSessionCalls :
    /\ call[c].req.kind = "delete"
    /\ call[c].req.timeout = 10000
    /\ call[c].nDelete = 1

\* C31: every error retryOperation catches from the operation body of
\* newSession is a plain Error without an HTTP status: the AxiosErrors of the
\* token request and of the session-create POST were replaced inside the
\* body, so the 4xx test of the wrapper never meets an error with a status
\* and is never true.
C31_WrapperSeesPlainErrors ==
  \A c \in Callers :
    \A e \in {call[c].bodyErr, call[c].lastError} :
      e # NoError =>
        /\ ~e.axios
        /\ e.status = 0
        /\ e.code = ""
        /\ ~ShouldRethrow(e)
        /\ e.msg[1] # "AxiosError"

\* C31 witness: the wrapper has caught the error of an attempt whose
\* session-create POST was answered 404, and it carries no status.
C31_Witness ==
  \E c \in Callers :
    /\ call[c].req.kind = "create" /\ call[c].answer.status = 404
    /\ call[c].pc = "backoff"
    /\ call[c].lastError = PlainError("Session creation failed", "Agentforce agent not found")

\* C31 witness: the same for an attempt whose token request was answered 401.
C31_WitnessToken ==
  \E c \in Callers :
    /\ call[c].req.kind = "oauth" /\ call[c].answer.status = 401
    /\ call[c].pc = "backoff"
    /\ call[c].lastError = PlainError("Authentication failed", "Invalid client credentials")

\* The calls that run newSession: newSession itself, and getSession, whose
\* body is one newSession call.  For these nCreds counts the executions of
\* the operation body, each of which starts with getCredentials.
RunsNewSession == {c \in Callers : call[c].op \in {"newSession", "getSession"}}

\* C32: every newSession call ends, by returning or raising, after at most 3
\* executions of its body and at most 2 backoff delays.  A successful body
\* execution is the last one (the call has returned with the answer of its
\* POST), and the wrapper waits only between attempts: while or after the
\* k-th execution runs there have been k - 1 delays, and none follows the
\* third failure.
C32_NewSessionTerminates ==
  /\ [](\A c \in RunsNewSession :
          /\ call[c].nCreds <= 3
          /\ Len(call[c].delays) <= 2
          /\ call[c].nCreate <= call[c].nCreds
          /\ call[c].pc \in {"backoff", "creds"} =>
               (Len(call[c].delays) = call[c].nCreds /\ call[c].nCreds <= 2)
          /\ (call[c].pc \notin {"backoff", "creds"} /\ call[c].nCreds > 0) =>
               Len(call[c].delays) = call[c].nCreds - 1
          /\ call[c].result.kind # "none" => call[c].pc = "done"
          /\ (call[c].result.kind = "ok" /\ call[c].nCreds > 0) =>
               (call[c].answer.status = 200 /\ call[c].req.kind = "create"
                  /\ call[c].nCreate >= 1))
  /\ \A c \in Callers :
       (call[c].op \in {"newSession", "getSession"} /\ call[c].pc # "done")
          ~> (call[c].pc = "done" /\ call[c].result.kind \in {"ok", "err"})

\* C32 witness: a newSession call has raised after three executions of its
\* body and two delays.
C32_Witness ==
  \E c \in NewSessionCalls :
    /\ call[c].pc = "done" /\ call[c].result.kind = "err"
    /\ call[c].nCreds = 3 /\ Len(call[c].delays) = 2

\* C32 witness: a newSession call has returned from its second body
\* execution, after one delay.
C32_WitnessReturned ==
  \E c \in NewSessionCalls :
    /\ call[c].pc = "done" /\ call[c].result.kind = "ok"
    /\ call[c].nCreds = 2 /\ Len(call[c].delays) = 1

\* The call of c started with no session memoized: it is the first call, or
\* it follows a completed endSession and found the cache empty.
StartedCold(c) ==
  ncalls = 1 \/ (call[c].sinceEnd.fresh /\ call[c].sinceEnd.ids = {})

\* C33: endSession issues its DELETE only after getSession has yielded a
\* session, and for that session.  When it started with no session memoized,
\* the session is one it has just created itself: it issued a session-create
\* POST (after retries, possibly) and deletes the session of that answer.
C33_EndSessionResolvesFirst ==
  \A c \in EndSessionCalls :
    /\ (call[c].nested \/ call[c].pc \in {"creds", "session", "oauth_wait", "broker_wait",
                                          "post_wait", "backoff"}) => call[c].nDelete = 0
    /\ call[c].nDelete <= 1
    /\ call[c].nDelete = 1 =>
         /\ call[c].sid # 0
         /\ call[c].req.kind = "delete" /\ call[c].req.sid = call[c].sid
         /\ StartedCold(c) => (call[c].nCreate >= 1 /\ call[c].sid = nextSid - 1)
         /\ call[c].nCreate = 0 => ~StartedCold(c)

\* C33 witness: an endSession call that started cold has created a session,
\* at its second attempt, and issued the DELETE for it.
C33_Witness ==
  \E c \in EndSessionCalls :
    /\ ncalls = 1
    /\ call[c].nCreate = 2 /\ call[c].delays = <<1500>>
    /\ call[c].req.kind = "delete" /\ call[c].req.sid = 1
    /\ call[c].pc = "req_wait"

\* C33 witness: an endSession call after a completed endSession found no
\* session and deletes the one it created.
C33_WitnessAfterEnd ==
  \E c \in EndSessionCalls :
    /\ call[c].sinceEnd.fresh /\ call[c].sinceEnd.ids = {}
    /\ call[c].nCreate = 1
    /\ call[c].req.kind = "delete" /\ call[c].req.sid = 2

\* The sessions memoized under a key with an agent id.
CachedForAgent == {sessionCache[k] : k \in {k \in SessionKeys : k[1] # NoAgent}} \ {0}

\* C34: endSession resolves its session without an agent id: the DELETE it
\* issues names the session memoized for (no agent id, mode), and the only
\* session a step ends on the platform is that one.  A session memoized
\* under a key with an agent id is never the one that is ended: it stays
\* open.
C34_EndSessionTarget ==
  /\ [](\A c \in EndSessionCalls :
          /\ call[c].agent = NoAgent
          /\ (call[c].req.kind = "delete" /\ call[c].pc = "req_wait") =>
               /\ call[c].req.sid # 0
               /\ call[c].req.sid = sessionCache[<<NoAgent, call[c].mode>>]
               /\ call[c].req.sid \notin CachedForAgent)
  /\ [](ended \cap CachedForAgent = {})
  /\ [][\A s \in ended' \ ended :
          /\ \E m \in AuthMode : s = sessionCache[<<NoAgent, m>>]
          /\ s \notin CachedForAgent]_vars

\* C34 witness: sendStreamingMessage obtained session 1 for agent-A; the
\* endSession that follows has created session 2 for no agent id and issued
\* the DELETE for it, session 1 is memoized and open.
C34_Witness ==
  \E c \in EndSessionCalls, m \in AuthMode :
    /\ call[c].pc = "req_wait" /\ call[c].req.kind = "delete" /\ call[c].req.sid = 2
    /\ sessionCache[<<"agent-A", m>>] = 1
    /\ 1 \notin ended

\* C34 witness: that endSession has succeeded: session 2 is ended, session 1
\* is not, and no session is memoized any more.
C34_WitnessLeft ==
  \E c \in EndSessionCalls :
    /\ call[c].pc = "done" /\ call[c].answer.status = 200 /\ call[c].req.sid = 2
    /\ call[c].nCreate = 1
    /\ ended = {2} /\ nextSid = 3
    /\ sessionCache = EmptySessionCache

\* The sessions the agent platform has created.
CreatedOnPlatform == 1 .. (nextSid - 1)

\* C35 (as claimed): after any interleaving of getSession,
\* sendStreamingMessage and successful endSession calls, every session that
\* was created on the platform is memoized or has been ended by a DELETE;
\* none is left both unmemoized and open.
C35_NoSessionLeft ==
  \A s \in CreatedOnPlatform : s \in CachedIds(sessionCache) \/ s \in ended

\* The calls whose newSession, run by getSession, has failed for good: the
\* wrapper has thrown its last error.
FailedResolution ==
  {c \in Callers : /\ call[c].op # "newSession" /\ call[c].pc = "done"
                   /\ call[c].lastError # NoError}

\* C36: a getSession whose newSession has failed, after its retries, leaves
\* nothing memoized for its arguments, neither a session nor the failure, and
\* the error reaches the caller: getSession raises it as it is.  The cache
\* only ever holds ids of sessions that were created, so the next getSession
\* with these arguments misses and creates.
C36_FailureNotMemoized ==
  /\ \A c \in FailedResolution :
       /\ sessionCache[<<call[c].agent, call[c].mode>>] = 0
       /\ call[c].sid = 0
       /\ call[c].op = "getSession" =>
            (call[c].result.kind = "err" /\ call[c].result.err = call[c].lastError)
       /\ call[c].op = "sendStreamingMessage" => call[c].result.kind = "err"
  /\ \A k \in SessionKeys : sessionCache[k] \in {0} \cup CreatedSessions

\* C36 witness: a getSession call has raised after three failed attempts
\* and nothing is memoized for its arguments.
C36_Witness ==
  \E c \in GetSessionCalls :
    /\ call[c].pc = "done" /\ call[c].result.kind = "err"
    /\ call[c].nCreate = 3 /\ call[c].answer.status = 503
    /\ sessionCache[<<call[c].agent, call[c].mode>>] = 0

\* C37: a direct newSession call does not go through the session cache.  It
\* never takes a session from it: whatever is memoized for its arguments, a
\* call that has returned has issued a session-create POST of its own and
\* returns the session of that answer, which is not a memoized one.  Every
\* POST it issues carries an external session key of its own.  And no step
\* of the call changes an entry of the cache.
C37_NewSessionBypassesCache ==
  /\ [](\A c \in NewSessionCalls :
          /\ call[c].sid = 0
          /\ Cardinality(call[c].keys) = call[c].nCreate
          /\ call[c].req.kind = "create" => call[c].req.key \in call[c].keys
          /\ call[c].result.kind = "ok" =>
               /\ call[c].nCreate >= 1
               /\ call[c].req.kind = "create" /\ call[c].answer.status = 200
               /\ call[c].result.sessionId = call[c].answer.sessionId
               /\ call[c].result.sessionId # 0
               /\ call[c].result.sessionId \notin CachedIds(sessionCache))
  /\ [][\A c \in Callers :
          (call[c].op = "newSession" /\ call[c].pc # "done" /\ call'[c] # call[c]) =>
            sessionCache' = sessionCache]_vars

\* C37 witness: with session 1 memoized for its arguments, a newSession call
\* has created and returned session 2, and session 1 is still the entry.
C37_Witness ==
  \E c \in NewSessionCalls :
    /\ call[c].pc = "done" /\ call[c].result.kind = "ok" /\ call[c].result.sessionId = 2
    /\ sessionCache[<<call[c].agent, call[c].mode>>] = 1
    /\ call[c].nCreate = 1

\* C37 witness: a newSession call returned from its second POST; the two
\* POSTs had different external session keys.
C37_WitnessKeys ==
  \E c \in NewSessionCalls :
    /\ call[c].pc = "done" /\ call[c].result.kind = "ok"
    /\ call[c].nCreate = 2 /\ Cardinality(call[c].keys) = 2

\* The latest attempt of c to create a session has ended with an error, and
\* nothing has happened in the call since.
AttemptEnded(c) == call[c].pc \in {"backoff", "done"} /\ call[c].bodyErr # NoError

\* C38: no request goes out when what it needs has failed.  A newSession
\* attempt that ended with a credential error issued no session-create POST:
\* its last request is the one for the credentials; with no agent id the call
\* issues no session-create POST at all.  A sendStreamingMessage or
\* endSession call has issued a message POST or a DELETE only with
\* credentials and a session it has resolved, so a call whose credential or
\* session resolution failed has issued neither; and only those two
\* operations issue them.
C38_NoRequestAfterFailure ==
  \A c \in Callers :
    /\ (AttemptEnded(c) /\ call[c].bodyErr.msg[1] \in CredentialErrorPrefixes) =>
         call[c].req.kind \in {"oauth", "broker"}
    /\ (call[c].bodyErr.msg[1] = NoAgentMessage \/ call[c].lastError.msg[1] = NoAgentMessage) =>
         (call[c].nCreate = 0 /\ call[c].req.kind # "create")
    /\ (call[c].nMsg + call[c].nDelete >= 1) =>
         /\ call[c].creds # NoCreds /\ call[c].sid # 0
         /\ call[c].req.kind \in {"message", "delete"}
         /\ call[c].req.bearer = call[c].creds.accessToken
         /\ call[c].req.sid = call[c].sid
         /\ call[c].lastError = NoError
    /\ (call[c].pc = "done" /\ (call[c].creds = NoCreds \/ call[c].sid = 0)) =>
         (call[c].nMsg = 0 /\ call[c].nDelete = 0)
    /\ call[c].op \in {"newSession", "getSession"} => (call[c].nMsg = 0 /\ call[c].nDelete = 0)
    /\ call[c].nMsg >= 1 => call[c].op = "sendStreamingMessage"
    /\ call[c].nDelete >= 1 => call[c].op = "endSession"

\* C38 witness: a sendStreamingMessage call resolved its credentials, its
\* session resolution failed after three session-create POSTs, and it has
\* raised without a message POST.
C38_Witness ==
  \E c \in SendCalls :
    /\ call[c].pc = "done" /\ call[c].result.kind = "err"
    /\ call[c].creds # NoCreds /\ call[c].sid = 0
    /\ call[c].nCreate = 3 /\ call[c].nMsg = 0

\* C38 witness: a newSession attempt whose token request was answered 503
\* has ended without a session-create POST.
C38_WitnessCredentials ==
  \E c \in NewSessionCalls :
    /\ call[c].pc = "backoff" /\ call[c].nCreds = 1 /\ call[c].nCreate = 0
    /\ call[c].req.kind = "oauth" /\ call[c].answer.status = 503

\* C38 witness: an endSession call whose credential resolution failed has
\* returned null without a session-create POST and without a DELETE.
C38_WitnessEnd ==
  \E c \in EndSessionCalls :
    /\ call[c].pc = "done" /\ call[c].result = ReturnedNull
    /\ call[c].creds = NoCreds /\ call[c].nCreate = 0 /\ call[c].nDelete = 0
    /\ call[c].req.kind \in {"oauth", "broker"}

====
